---- MODULE Spec2Model ----
(***************************************************************************)
(* PollingStateMachine of provisioning/device/src/polling_state_machine.ts *)
(* The machina FSM, its two fields (_currentOperationCallback and          *)
(* _pollingTimer), the calls outstanding at the transport, the pending     *)
(* setTimeout callbacks and the inputs machina has deferred.  Every        *)
(* handler runs to completion (node is single threaded), so one action is  *)
(* one top-level event: an API call, a transport completion or a timeout.  *)
(***************************************************************************)
EXTENDS Naturals, Sequences, FiniteSets, Bags

VARIABLES
  state,                      \* machina: this._fsm.state
  targetReplayState,          \* machina: target of the innermost transition
  inputQueue,                 \* machina: inputs deferred until the next transition
  _currentOperationCallback,  \* 0 is null, otherwise the id of a register callback
  _pollingTimer,              \* 0 is null, otherwise a timeout handle
  timers,                     \* pending setTimeout closures
  transportCalls,             \* outstanding registrationRequest / queryOperationStatus calls
  endCalls,                   \* outstanding transport.endSession calls
  calls,                      \* calls[c]: the API call that owns callback c
  invocations,                \* invocations[c]: how many times callback c was called
  polls,                      \* polls[c]: assigning responses accepted for the attempt of c
  emitted,                    \* emitted[c]: operationStatus events emitted for the attempt of c
  trace                       \* what the last step did, in order

vars == <<state, targetReplayState, inputQueue, _currentOperationCallback,
          _pollingTimer, timers, transportCalls, endCalls, calls, invocations,
          polls, emitted, trace>>

----------------------------------------------------------------------------
(* Bounds *)

\* number of register and endSession calls made by the callers
MaxCalls == 3
\* number of assigning responses one attempt accepts
MaxPolls == 2

----------------------------------------------------------------------------
(* Values *)

States == {"disconnected", "idle", "sendingRegistrationRequest", "responseReceived",
           "responseComplete", "responseError", "waitingToPoll", "polling",
           "endingSession"}

\* strings are sequences of characters so that toLowerCase is computed
UpperChars == <<"A","B","C","D","E","F","G","H","I","J","K","L","M",
                "N","O","P","Q","R","S","T","U","V","W","X","Y","Z">>
LowerChars == <<"a","b","c","d","e","f","g","h","i","j","k","l","m",
                "n","o","p","q","r","s","t","u","v","w","x","y","z">>

toLowerCaseChar(c) ==
  IF \E i \in 1..26 : UpperChars[i] = c
    THEN LowerChars[CHOOSE i \in 1..26 : UpperChars[i] = c]
    ELSE c

\* the status is compared as it was delivered
toLowerCase_identity(s) == s

toLowerCase(s) == [i \in 1..Len(s) |-> toLowerCaseChar(s[i])]

assigned  == <<"a","s","s","i","g","n","e","d">>
assigning == <<"a","s","s","i","g","n","i","n","g">>
failed    == <<"f","a","i","l","e","d">>

\* the status strings the transport delivers
Statuses == { assigned, <<"A","s","s","i","g","n","e","d">>,
              assigning, <<"A","S","S","I","G","N","I","N","G">>,
              failed, <<"F","a","i","l","e","d">>,
              <<"u","n","k","n","o","w","n">> }

\* undefined / null body
Undef == [defined |-> FALSE, hasStatus |-> FALSE, status |-> <<>>, operationId |-> 0]

Body(hasStatus, status, operationId) ==
  [defined |-> TRUE, hasStatus |-> hasStatus, status |-> status, operationId |-> operationId]

\* errors are objects: a name and the body and result attached to them
Err(name, body, result) == [name |-> name, body |-> body, result |-> result]
NoErr == Err("none", Undef, 0)
TransportError == Err("TransportError", Undef, 0)
DisconnectError == Err("DisconnectError", Undef, 0)

\* err || disconnectErr
\* the error of the transport's endSession comes first
OrErr_disconnectFirst(err, disconnectErr) ==
  IF disconnectErr.name # "none" THEN disconnectErr ELSE err

OrErr(err, disconnectErr) == IF err.name # "none" THEN err ELSE disconnectErr

\* what a transport completion delivers: (err, body, result, pollingInterval).
\* The n-th response to an attempt carries the operation id n, a result and
\* a polling interval of its own, so that no two responses are alike.
Responses(n) ==
  { [err |-> TransportError, body |-> Undef, result |-> 0, pollingInterval |-> 0] }
  \cup
  { [err |-> NoErr, body |-> Body(TRUE, s, n), result |-> 10 + n,
     pollingInterval |-> 100 * n] : s \in Statuses }
  \cup
  { [err |-> NoErr, body |-> Body(FALSE, <<>>, n), result |-> 10 + n,
     pollingInterval |-> 100 * n] }

\* arguments of a transition, as the _onEnter of the target state receives them
Args(err, request, body, result, pollingInterval, operationId, callback) ==
  [err |-> err, request |-> request, body |-> body, result |-> result,
   pollingInterval |-> pollingInterval, operationId |-> operationId, callback |-> callback]

\* an entry of the trace of a step
Entry(ev, op, cb, err, body, result, st) ==
  [ev |-> ev, op |-> op, cb |-> cb, err |-> err, body |-> body, result |-> result, st |-> st]

\* the machine as one record, so that handlers compose as functions
Machine ==
  [state |-> state, targetReplayState |-> targetReplayState, inputQueue |-> inputQueue,
   _currentOperationCallback |-> _currentOperationCallback, _pollingTimer |-> _pollingTimer,
   timers |-> timers, transportCalls |-> transportCalls, endCalls |-> endCalls,
   calls |-> calls, invocations |-> invocations, polls |-> polls, emitted |-> emitted,
   trace |-> <<>>, listener |-> "none", thrown |-> FALSE]

Append1(m, e) == [m EXCEPT !.trace = Append(@, e)]

\* an API call is made with a callback of its own
NewCall(m, type) ==
  [m EXCEPT !.calls = Append(@, type), !.invocations = Append(@, 0),
            !.polls = Append(@, 0), !.emitted = Append(@, 0)]

----------------------------------------------------------------------------
(* machina and the callers' functions *)

RECURSIVE transition(_, _, _), handle(_, _), processItems(_, _), processQueue(_)

\* a caller's callback is called: callback(err, body, result)
Invoke(m, callback, err, body, result) ==
  [Append1(m, Entry("callback", m.calls[callback], callback, err, body, result, m.state))
     EXCEPT !.invocations[callback] = @ + 1]

\* machina deferUntilTransition(): the input being handled is queued
\* the input being handled is dropped
deferUntilTransition_drops(m, input) ==
  Append1(m, Entry("defer", input.type, input.callback, NoErr, Undef, 0, m.state))

deferUntilTransition(m, input) ==
  [Append1(m, Entry("defer", input.type, input.callback, NoErr, Undef, 0, m.state))
     EXCEPT !.inputQueue = Append(@, input)]

\* this.emit('operationStatus', body); the listener may call back into the
\* machine (m.listener), which machina handles in the state the machine is in
emit(m, callback, body) ==
  LET m1 == [Append1(m, Entry("emit", "operationStatus", callback, NoErr, body, 0, m.state))
               EXCEPT !.emitted[callback] = @ + 1]
      c  == Len(m1.calls) + 1
  IN  IF m1.listener = "none" \/ Len(m1.calls) >= MaxCalls
        THEN [m1 EXCEPT !.listener = "none"]
        ELSE handle([NewCall(m1, m1.listener) EXCEPT !.listener = "none"],
                    [type |-> m1.listener, callback |-> c])

\* setTimeout returns a handle no live timer and no field holds
NewHandle(m) ==
  CHOOSE h \in 1..(Cardinality(m.timers) + 2) :
    /\ h # m._pollingTimer
    /\ \A t \in m.timers : t.handle # h

\* clearTimeout(handle)
clearTimeout(m, h) ==
  [Append1(m, Entry("clearTimeout", "timer", 0, NoErr, Undef, h, m.state))
     EXCEPT !.timers = {t \in @ : t.handle # h}]

\* a check that some operation is pending, whichever it is
IsCurrentOperation_anyPending(m, callback) == m._currentOperationCallback # 0

\* if (this._currentOperationCallback === callback)
IsCurrentOperation(m, callback) == m._currentOperationCallback = callback

----------------------------------------------------------------------------
(* the states of the machine *)

disconnected_onEnter(m, a) ==
  LET m1 == [m EXCEPT !._currentOperationCallback = 0]
  IN  IF a.callback # 0 THEN Invoke(m1, a.callback, a.err, a.body, a.result) ELSE m1

disconnected_register(m, input) ==
  transition(m, "sendingRegistrationRequest",
             Args(NoErr, input.callback, Undef, 0, 0, 0, input.callback))

\* an endSession that ends the session of the transport although there is none
disconnected_endSession_endsSession(m, input) ==
  transition(m, "endingSession", Args(NoErr, 0, Undef, 0, 0, 0, input.callback))

\* callback() with no arguments
disconnected_endSession(m, input) ==
  Invoke(m, input.callback, NoErr, Undef, 0)

idle_onEnter(m, a) ==
  Invoke(m, a.callback, a.err, a.body, a.result)

\* an endSession that disconnects without ending the session of the transport
idle_endSession_skipsTransport(m, input) ==
  transition(m, "disconnected", Args(NoErr, 0, Undef, 0, 0, 0, input.callback))

idle_endSession(m, input) ==
  transition(m, "endingSession", Args(NoErr, 0, Undef, 0, 0, 0, input.callback))

idle_register(m, input) ==
  transition(m, "sendingRegistrationRequest",
             Args(NoErr, input.callback, Undef, 0, 0, 0, input.callback))

sendingRegistrationRequest_onEnter(m, a) ==
  LET m1 == [m EXCEPT !._currentOperationCallback = a.callback]
      m2 == Append1(m1, Entry("transport", "registrationRequest", a.callback,
                              NoErr, Undef, 0, m1.state))
  IN  [m2 EXCEPT !.transportCalls =
         @ (+) SetToBag({[op |-> "registrationRequest", request |-> a.request,
                          operationId |-> 0, callback |-> a.callback]})]

sendingRegistrationRequest_endSession(m, input) ==
  transition(m, "endingSession", Args(NoErr, 0, Undef, 0, 0, 0, input.callback))

sendingRegistrationRequest_register(m, input) ==
  Invoke(m, input.callback, Err("InvalidOperationError", Undef, 0), Undef, 0)

responseReceived_onEnter(m, a) ==
  IF a.err.name # "none"
    THEN transition(m, "responseError", Args(a.err, 0, a.body, a.result, 0, 0, a.callback))
    ELSE IF ~a.body.hasStatus
      \* body.status.toLowerCase() of null or undefined throws a TypeError
      THEN [Append1(m, Entry("throw", "TypeError", a.callback, NoErr, a.body, a.result, m.state))
              EXCEPT !.thrown = TRUE]
      ELSE LET status == toLowerCase(a.body.status) IN
        CASE status = assigned ->
               transition(m, "responseComplete",
                          Args(NoErr, 0, a.body, a.result, 0, 0, a.callback))
          [] status = assigning ->
               LET m1 == emit([m EXCEPT !.polls[a.callback] = @ + 1], a.callback, a.body)
               IN  transition(m1, "waitingToPoll",
                              Args(NoErr, a.request, Undef, 0, a.pollingInterval,
                                   a.body.operationId, a.callback))
          [] status = failed ->
               transition(m, "responseError",
                          Args(Err("DeviceRegistrationFailedError", a.body, a.result),
                               0, a.body, a.result, 0, 0, a.callback))
          [] OTHER ->
               transition(m, "responseError",
                          Args(Err("SyntaxError", a.body, a.result),
                               0, a.body, a.result, 0, 0, a.callback))

\* the final body is not announced
responseComplete_onEnter_noEmit(m, a) ==
  LET m1 == [m EXCEPT !._currentOperationCallback = 0]
  IN  transition(m1, "idle", Args(NoErr, 0, a.body, a.result, 0, 0, a.callback))

\* the final body is announced after the register callback was called
responseComplete_onEnter_emitsLast(m, a) ==
  LET m1 == [m EXCEPT !._currentOperationCallback = 0]
      m2 == transition(m1, "idle", Args(NoErr, 0, a.body, a.result, 0, 0, a.callback))
  IN  emit(m2, a.callback, a.body)

responseComplete_onEnter(m, a) ==
  LET m1 == [m EXCEPT !._currentOperationCallback = 0]
      m2 == emit(m1, a.callback, a.body)
  IN  transition(m2, "idle", Args(NoErr, 0, a.body, a.result, 0, 0, a.callback))

\* the current operation callback is left in place
responseError_onEnter_keepsCallback(m, a) ==
  transition(m, "endingSession", Args(a.err, 0, a.body, a.result, 0, 0, a.callback))

responseError_onEnter(m, a) ==
  LET m1 == [m EXCEPT !._currentOperationCallback = 0]
  IN  transition(m1, "endingSession", Args(a.err, 0, a.body, a.result, 0, 0, a.callback))

waitingToPoll_onEnter(m, a) ==
  LET h  == NewHandle(m)
      m1 == Append1(m, Entry("setTimeout", "timer", a.callback, NoErr, Undef,
                             a.pollingInterval, m.state))
  IN  [m1 EXCEPT !.timers = @ \cup {[handle |-> h, request |-> a.request,
                                     operationId |-> a.operationId,
                                     pollingInterval |-> a.pollingInterval,
                                     callback |-> a.callback]},
                 !._pollingTimer = h]

\* an endSession that leaves the timeout pending
waitingToPoll_endSession_keepsTimer(m, input) ==
  transition(m, "endingSession", Args(NoErr, 0, Undef, 0, 0, 0, input.callback))

waitingToPoll_endSession(m, input) ==
  LET m1 == clearTimeout(m, m._pollingTimer)
      m2 == [m1 EXCEPT !._pollingTimer = 0]
  IN  transition(m2, "endingSession", Args(NoErr, 0, Undef, 0, 0, 0, input.callback))

\* a register that starts a new attempt over the one that waits
waitingToPoll_register_restarts(m, input) ==
  transition(m, "sendingRegistrationRequest",
             Args(NoErr, input.callback, Undef, 0, 0, 0, input.callback))

waitingToPoll_register(m, input) ==
  Invoke(m, input.callback, Err("InvalidOperationError", Undef, 0), Undef, 0)

polling_onEnter(m, a) ==
  LET m1 == Append1(m, Entry("transport", "queryOperationStatus", a.callback,
                             NoErr, Undef, a.operationId, m.state))
  IN  [m1 EXCEPT !.transportCalls =
         @ (+) SetToBag({[op |-> "queryOperationStatus", request |-> a.request,
                          operationId |-> a.operationId, callback |-> a.callback]})]

polling_endSession(m, input) ==
  transition(m, "endingSession", Args(NoErr, 0, Undef, 0, 0, 0, input.callback))

\* a register that starts over instead of failing
polling_register_restarts(m, input) ==
  transition(m, "sendingRegistrationRequest",
             Args(NoErr, input.callback, Undef, 0, 0, 0, input.callback))

polling_register(m, input) ==
  Invoke(m, input.callback, Err("InvalidOperationError", Undef, 0), Undef, 0)

\* the transport is told to end the session before the attempt is cancelled
endingSession_onEnter_transportFirst(m, a) ==
  LET m1 == Append1(m, Entry("transport", "endSession", a.callback, NoErr, Undef, 0, m.state))
      m2 == [m1 EXCEPT !.endCalls =
               @ (+) SetToBag({[err |-> a.err, body |-> a.body, result |-> a.result,
                                callback |-> a.callback]})]
  IN  IF m2._currentOperationCallback # 0
        THEN LET _callback == m2._currentOperationCallback
             IN  Invoke([m2 EXCEPT !._currentOperationCallback = 0], _callback,
                        Err("OperationCancelledError", Undef, 0), Undef, 0)
        ELSE m2

endingSession_onEnter(m, a) ==
  LET m1 == IF m._currentOperationCallback # 0
              THEN LET _callback == m._currentOperationCallback
                   IN  Invoke([m EXCEPT !._currentOperationCallback = 0], _callback,
                              Err("OperationCancelledError", Undef, 0), Undef, 0)
              ELSE m
      m2 == Append1(m1, Entry("transport", "endSession", a.callback, NoErr, Undef, 0, m1.state))
  IN  [m2 EXCEPT !.endCalls =
         @ (+) SetToBag({[err |-> a.err, body |-> a.body, result |-> a.result,
                          callback |-> a.callback]})]

----------------------------------------------------------------------------
(* machina: transition, handle, processQueue *)

onEnter(m, newState, a) ==
  CASE newState = "disconnected"               -> disconnected_onEnter(m, a)
    [] newState = "idle"                       -> idle_onEnter(m, a)
    [] newState = "sendingRegistrationRequest" -> sendingRegistrationRequest_onEnter(m, a)
    [] newState = "responseReceived"           -> responseReceived_onEnter(m, a)
    [] newState = "responseComplete"           -> responseComplete_onEnter(m, a)
    [] newState = "responseError"              -> responseError_onEnter(m, a)
    [] newState = "waitingToPoll"              -> waitingToPoll_onEnter(m, a)
    [] newState = "polling"                    -> polling_onEnter(m, a)
    [] newState = "endingSession"              -> endingSession_onEnter(m, a)

\* machina transition(newState, ...args): nothing when newState is the
\* current state; the deferred inputs are replayed by the innermost transition
\* the deferred inputs are replayed before the _onEnter of the new state runs
transition_replaysFirst(m, newState, a) ==
  IF newState = m.state THEN m
  ELSE LET m1 == [m EXCEPT !.state = newState, !.targetReplayState = newState]
       IN  onEnter(processQueue(m1), newState, a)

transition(m, newState, a) ==
  IF newState = m.state THEN m
  ELSE LET m1 == [m EXCEPT !.state = newState, !.targetReplayState = newState]
           m2 == onEnter(m1, newState, a)
       IN  IF ~m2.thrown /\ m2.targetReplayState = newState
             THEN processQueue(m2)
             ELSE m2

\* machina handle(inputType, ...args): the handler of the current state,
\* or its '*' handler
handle(m, input) ==
  LET s  == m.state
      m1 == Append1(m, Entry("handle", input.type, input.callback, NoErr, Undef, 0, s))
      r  == input.type = "register"
  IN  CASE s = "disconnected" ->
             IF r THEN disconnected_register(m1, input) ELSE disconnected_endSession(m1, input)
        [] s = "idle" ->
             IF r THEN idle_register(m1, input) ELSE idle_endSession(m1, input)
        [] s = "sendingRegistrationRequest" ->
             IF r THEN sendingRegistrationRequest_register(m1, input)
                  ELSE sendingRegistrationRequest_endSession(m1, input)
        [] s = "waitingToPoll" ->
             IF r THEN waitingToPoll_register(m1, input) ELSE waitingToPoll_endSession(m1, input)
        [] s = "polling" ->
             IF r THEN polling_register(m1, input) ELSE polling_endSession(m1, input)
        [] OTHER -> deferUntilTransition(m, input)

\* machina processQueue: the queue is emptied, then every input that was in
\* it is handled in order
processItems(m, items) ==
  IF items = <<>> \/ m.thrown THEN m
  ELSE processItems(handle(m, Head(items)), Tail(items))

processQueue(m) == processItems([m EXCEPT !.inputQueue = <<>>], m.inputQueue)

\* the callback given to transport.registrationRequest
registrationRequest_callback(m, c, r) ==
  IF IsCurrentOperation(m, c.callback)
    THEN transition(Append1(m, Entry("response", c.op, c.callback, r.err, r.body, r.result, m.state)),
                    "responseReceived",
                    Args(r.err, c.request, r.body, r.result, r.pollingInterval, 0, c.callback))
    ELSE m

\* the callback given to transport.queryOperationStatus
queryOperationStatus_callback(m, c, r) ==
  IF IsCurrentOperation(m, c.callback)
    THEN transition(Append1(m, Entry("response", c.op, c.callback, r.err, r.body, r.result, m.state)),
                    "responseReceived",
                    Args(r.err, c.request, r.body, r.result, r.pollingInterval, 0, c.callback))
    ELSE m

\* the function given to setTimeout
\* the operation id and the polling interval change places
pollingTimer_callback_swapsArguments(m, t) ==
  transition(m, "polling",
             Args(NoErr, t.request, Undef, 0, t.operationId, t.pollingInterval, t.callback))

pollingTimer_callback(m, t) ==
  transition(m, "polling",
             Args(NoErr, t.request, Undef, 0, t.pollingInterval, t.operationId, t.callback))

\* the error of the transport's endSession is dropped
endSession_callback_dropsError(m, c, disconnectErr) ==
  transition(m, "disconnected", Args(c.err, 0, c.body, c.result, 0, 0, c.callback))

\* the callback given to transport.endSession
endSession_callback(m, c, disconnectErr) ==
  transition(m, "disconnected",
             Args(OrErr(c.err, disconnectErr), 0, c.body, c.result, 0, 0, c.callback))

\* PollingStateMachine.register(request, requestBody, callback)
register(m, callback) == handle(m, [type |-> "register", callback |-> callback])

\* PollingStateMachine.endSession(callback)
endSession(m, callback) == handle(m, [type |-> "endSession", callback |-> callback])

----------------------------------------------------------------------------
(* The state machine *)

Set(m) ==
  /\ state' = m.state
  /\ targetReplayState' = m.targetReplayState
  /\ inputQueue' = m.inputQueue
  /\ _currentOperationCallback' = m._currentOperationCallback
  /\ _pollingTimer' = m._pollingTimer
  /\ timers' = m.timers
  /\ transportCalls' = m.transportCalls
  /\ endCalls' = m.endCalls
  /\ calls' = m.calls
  /\ invocations' = m.invocations
  /\ polls' = m.polls
  /\ emitted' = m.emitted
  /\ trace' = m.trace

\* the step starts with the event that causes it
Begin(m, ev, op, cb, err, body, result) ==
  [m EXCEPT !.trace = <<Entry(ev, op, cb, err, body, result, m.state)>>]

Init ==
  /\ state = "disconnected"
  /\ targetReplayState = "disconnected"
  /\ inputQueue = <<>>
  /\ _currentOperationCallback = 0
  /\ _pollingTimer = 0
  /\ timers = {}
  /\ transportCalls = EmptyBag
  /\ endCalls = EmptyBag
  /\ calls = <<>>
  /\ invocations = <<>>
  /\ polls = <<>>
  /\ emitted = <<>>
  /\ trace = <<>>

\* a caller calls register with a callback of its own
Register ==
  /\ Len(calls) < MaxCalls
  /\ Set(register(Begin(NewCall(Machine, "register"), "call", "register",
                        Len(calls) + 1, NoErr, Undef, 0),
                  Len(calls) + 1))

\* a caller calls endSession with a callback of its own
EndSession ==
  /\ Len(calls) < MaxCalls
  /\ Set(endSession(Begin(NewCall(Machine, "endSession"), "call", "endSession",
                          Len(calls) + 1, NoErr, Undef, 0),
                    Len(calls) + 1))

\* a response the attempt may still poll after
Allowed(c, r) ==
  (r.err.name = "none" /\ r.body.hasStatus /\ toLowerCase(r.body.status) = assigning)
    => polls[c.callback] < MaxPolls

\* what the operationStatus listener does when it is called: nothing, or a
\* call of register or endSession; it is called only when an event is emitted
Listeners(c, r) ==
  IF /\ c.callback = _currentOperationCallback
     /\ r.err.name = "none"
     /\ r.body.hasStatus
     /\ toLowerCase(r.body.status) \in {assigning, assigned}
    THEN {"none", "register", "endSession"}
    ELSE {"none"}

\* the transport completes a registrationRequest call
RegistrationRequestCompletes ==
  \E c \in BagToSet(transportCalls) :
    \E r \in Responses(polls[c.callback] + 1) : \E l \in Listeners(c, r) :
    /\ c.op = "registrationRequest"
    /\ Allowed(c, r)
    /\ Set(registrationRequest_callback(
             Begin([Machine EXCEPT !.transportCalls = @ (-) SetToBag({c}), !.listener = l],
                   "completion", c.op, c.callback, NoErr, Undef, 0), c, r))

\* the transport completes a queryOperationStatus call
QueryOperationStatusCompletes ==
  \E c \in BagToSet(transportCalls) :
    \E r \in Responses(polls[c.callback] + 1) : \E l \in Listeners(c, r) :
    /\ c.op = "queryOperationStatus"
    /\ Allowed(c, r)
    /\ Set(queryOperationStatus_callback(
             Begin([Machine EXCEPT !.transportCalls = @ (-) SetToBag({c}), !.listener = l],
                   "completion", c.op, c.callback, NoErr, Undef, 0), c, r))

\* a pending timeout fires
PollingTimerFires ==
  \E t \in timers :
    Set(pollingTimer_callback(
          Begin([Machine EXCEPT !.timers = @ \ {t}],
                "timeout", "timer", t.callback, NoErr, Undef, t.handle), t))

\* the transport completes an endSession call, with or without an error
EndSessionCompletes ==
  \E c \in BagToSet(endCalls), disconnectErr \in {NoErr, DisconnectError} :
    Set(endSession_callback(
          Begin([Machine EXCEPT !.endCalls = @ (-) SetToBag({c})],
                "completion", "endSession", c.callback, disconnectErr, Undef, 0),
          c, disconnectErr))

Next ==
  \/ Register
  \/ EndSession
  \/ RegistrationRequestCompletes
  \/ QueryOperationStatusCompletes
  \/ PollingTimerFires
  \/ EndSessionCompletes

Spec == Init /\ [][Next]_vars

\* the transport completes every endSession call it is given
FairSpec == Spec /\ WF_vars(EndSessionCompletes)

TypeOK ==
  /\ state \in States
  /\ _currentOperationCallback \in 0..MaxCalls
  /\ Len(calls) <= MaxCalls

----------------------------------------------------------------------------
(* Properties *)

\* the states in which a registration attempt is in flight
InFlight == {"sendingRegistrationRequest", "waitingToPoll", "polling"}

\* the entries of a trace that satisfy P
Where(t, P(_)) == {k \in 1..Len(t) : P(t[k])}

IsCallback(e) == e.ev = "callback"

\* the step that leads to the next state is the completion of a
\* registrationRequest or queryOperationStatus call
RequestCompletes ==
  /\ trace' # <<>>
  /\ trace'[1].ev = "completion"
  /\ trace'[1].op \in {"registrationRequest", "queryOperationStatus"}

\* the step that leads to the next state is the API call op made in a state of S
CallIn(op, S) ==
  /\ trace' # <<>>
  /\ trace'[1].ev = "call"
  /\ trace'[1].op = op
  /\ state \in S

\* nothing of the machine but the bookkeeping of the new callback changes
MachineUnchanged ==
  /\ state' = state
  /\ targetReplayState' = targetReplayState
  /\ inputQueue' = inputQueue
  /\ _currentOperationCallback' = _currentOperationCallback
  /\ _pollingTimer' = _pollingTimer
  /\ timers' = timers
  /\ transportCalls' = transportCalls
  /\ endCalls' = endCalls

(* C1: the completion of a registrationRequest or queryOperationStatus call
   whose callback is not the current operation callback changes nothing: no
   transition, no callback called, no operationStatus event, and the state,
   the current operation callback, the timers and the queue of the newer
   attempt stay as they are. *)
C1_StaleCompletionDiscarded ==
  [][(RequestCompletes /\ trace'[1].cb # _currentOperationCallback)
       => /\ Len(trace') = 1
          /\ state' = state
          /\ targetReplayState' = targetReplayState
          /\ inputQueue' = inputQueue
          /\ _currentOperationCallback' = _currentOperationCallback
          /\ _pollingTimer' = _pollingTimer
          /\ timers' = timers
          /\ endCalls' = endCalls
          /\ BagCardinality(transportCalls') = BagCardinality(transportCalls) - 1
          /\ invocations' = invocations
          /\ emitted' = emitted
          /\ polls' = polls]_vars

\* the completion of a cancelled attempt was discarded while a newer attempt
\* is in flight
C1_Witness ==
  /\ trace # <<>>
  /\ trace[1].ev = "completion"
  /\ trace[1].op \in {"registrationRequest", "queryOperationStatus"}
  /\ Len(trace) = 1
  /\ _currentOperationCallback # 0
  /\ trace[1].cb # _currentOperationCallback
  /\ invocations[trace[1].cb] = 1
  /\ state \in InFlight

(* C2: register called in sendingRegistrationRequest, waitingToPoll or
   polling calls its callback at once with an InvalidOperationError and does
   nothing else: the state, the current operation callback, the timers, the
   outstanding transport calls and the deferred inputs are what they were, so
   the attempt in flight goes on exactly as without the call. *)
C2_RegisterInFlightRejected ==
  [][CallIn("register", InFlight)
       => /\ MachineUnchanged
          /\ Len(trace') = 3
          /\ trace'[2].ev = "handle"
          /\ trace'[3].ev = "callback"
          /\ trace'[3].cb = Len(calls) + 1
          /\ trace'[3].err = Err("InvalidOperationError", Undef, 0)
          /\ invocations' = Append(invocations, 1)
          /\ emitted' = Append(emitted, 0)
          /\ polls' = Append(polls, 0)]_vars

\* a register was rejected while the attempt in flight was polling
C2_Witness ==
  /\ Len(trace) = 3
  /\ trace[1].ev = "call"
  /\ trace[1].op = "register"
  /\ trace[1].st = "polling"
  /\ trace[3].err.name = "InvalidOperationError"
  /\ _currentOperationCallback # 0
  /\ _currentOperationCallback # trace[1].cb

(* C3: endSession called while an attempt is in flight calls the register
   callback of that attempt with an OperationCancelledError before it calls
   the endSession of the transport, clears the current operation callback and
   calls no other callback; an OperationCancelledError is never given to the
   callback of an endSession call. *)
C3_EndSessionCancelsAttempt ==
  [][/\ CallIn("endSession", InFlight)
          => /\ \E i, j \in 1..Len(trace') :
                  /\ i < j
                  /\ trace'[i].ev = "callback"
                  /\ trace'[i].cb = _currentOperationCallback
                  /\ trace'[i].op = "register"
                  /\ trace'[i].err = Err("OperationCancelledError", Undef, 0)
                  /\ trace'[j].ev = "transport"
                  /\ trace'[j].op = "endSession"
             /\ Cardinality(Where(trace', IsCallback)) = 1
             /\ _currentOperationCallback # 0
             /\ _currentOperationCallback' = 0
             /\ invocations'[Len(calls) + 1] = 0
     /\ \A k \in 1..Len(trace') :
          (trace'[k].ev = "callback" /\ trace'[k].err.name = "OperationCancelledError")
            => trace'[k].op = "register"]_vars

\* endSession has just cancelled the attempt that was waiting for its response
C3_Witness ==
  /\ Len(trace) >= 4
  /\ trace[1].ev = "call"
  /\ trace[1].op = "endSession"
  /\ trace[1].st = "sendingRegistrationRequest"
  /\ \E i \in 1..Len(trace) :
       trace[i].ev = "callback" /\ trace[i].err.name = "OperationCancelledError"
  /\ state = "endingSession"
  /\ _currentOperationCallback = 0

(* C4: endSession called in waitingToPoll cancels the pending timeout, which
   never fires: no timeout is left for the attempt, the machine never enters
   polling and never calls queryOperationStatus for an attempt whose callback
   has been called; the register callback gets the OperationCancelledError in
   that step and the endSession callback is called only in the step in which
   the endSession call of the transport completes. *)
C4_EndSessionWhileWaiting ==
  [][/\ CallIn("endSession", {"waitingToPoll"})
          => /\ timers' = {}
             /\ state' = "endingSession"
             /\ invocations'[_currentOperationCallback] = 1
             /\ \E i \in 1..Len(trace') :
                  /\ trace'[i].ev = "callback"
                  /\ trace'[i].cb = _currentOperationCallback
                  /\ trace'[i].err.name = "OperationCancelledError"
             /\ invocations'[Len(calls) + 1] = 0
             /\ \E c \in BagToSet(endCalls') : c.callback = Len(calls) + 1
     /\ \A t \in timers' : invocations'[t.callback] = 0
     /\ \A k \in 1..Len(trace') :
          (trace'[k].ev = "transport" /\ trace'[k].op = "queryOperationStatus")
            => invocations'[trace'[k].cb] = 0
     /\ (trace' # <<>> /\ trace'[1].ev = "timeout") => invocations'[trace'[1].cb] = 0
     /\ \A c \in BagToSet(endCalls) :
          invocations'[c.callback] > invocations[c.callback]
            => /\ trace'[1].ev = "completion"
               /\ trace'[1].op = "endSession"
               /\ trace'[1].cb = c.callback]_vars

\* the session was ended while waiting to poll, the transport has completed
\* its endSession and both callbacks have been called
C4_Witness ==
  /\ Len(calls) >= 2
  /\ calls[1] = "register"
  /\ calls[2] = "endSession"
  /\ polls[1] = 1
  /\ invocations[1] = 1
  /\ invocations[2] = 1
  /\ state = "disconnected"
  /\ timers = {}
  /\ trace[1].ev = "completion"
  /\ trace[1].op = "endSession"

\* the callbacks of endSession calls that were called in the last step
EndSessionCallbacks == {k \in 1..Len(trace) : trace[k].ev = "callback" /\ trace[k].op = "endSession"}

\* the last step was the completion of the transport's endSession for callback cb
EndSessionCompleted(cb) ==
  /\ trace[1].ev = "completion"
  /\ trace[1].op = "endSession"
  /\ trace[1].cb = cb

(* C5, as claimed: the callback of endSession is called with no error,
   whatever the endSession of the transport reports. *)
C5_EndSessionNeverFails ==
  \A k \in EndSessionCallbacks : trace[k].err = NoErr

(* C5, amended: the callback of endSession is called in disconnected, once the
   endSession of the transport (if any) has completed, with no body and no
   result; its error is the error the endSession of the transport reported
   when the callback was carried through endingSession, and no error when the
   call was handled in disconnected. It never gets the error of the attempt. *)
C5_EndSessionReportsDisconnectError ==
  \A k \in EndSessionCallbacks :
    /\ trace[k].st = "disconnected"
    /\ trace[k].body = Undef
    /\ trace[k].result = 0
    /\ trace[k].err \in {NoErr, DisconnectError}
    /\ IF EndSessionCompleted(trace[k].cb)
         THEN trace[k].err = trace[1].err
         ELSE /\ trace[k].err = NoErr
              /\ trace[k - 1].ev = "handle"
              /\ trace[k - 1].cb = trace[k].cb
              /\ trace[k - 1].st = "disconnected"
    /\ invocations[trace[k].cb] = 1

\* an endSession callback was called with the error of the transport's endSession
C5_Witness ==
  \E k \in EndSessionCallbacks :
    /\ EndSessionCompleted(trace[k].cb)
    /\ trace[k].err = DisconnectError
    /\ state = "disconnected"

(* C6: endSession called in disconnected calls its callback at once, calls
   nothing of the transport, and leaves the machine in disconnected with no
   current operation callback. *)
C6_EndSessionWhileDisconnected ==
  [][CallIn("endSession", {"disconnected"})
       => /\ MachineUnchanged
          /\ state' = "disconnected"
          /\ _currentOperationCallback' = 0
          /\ Len(trace') = 3
          /\ trace'[2].ev = "handle"
          /\ trace'[3] = Entry("callback", "endSession", Len(calls) + 1, NoErr, Undef, 0,
                               "disconnected")
          /\ invocations' = Append(invocations, 1)]_vars

\* endSession was called in disconnected after a session had been ended
C6_Witness ==
  /\ Len(trace) = 3
  /\ trace[1].ev = "call"
  /\ trace[1].op = "endSession"
  /\ trace[1].st = "disconnected"
  /\ trace[3].ev = "callback"
  /\ state = "disconnected"
  /\ Len(calls) = 3
  /\ calls[1] = "register"

\* the callbacks the machine holds for the attempt or carries through
\* endingSession, and the callbacks of the inputs it has deferred
Held ==
  ({_currentOperationCallback} \ {0})
    \cup {t.callback : t \in timers}
    \cup {c.callback : c \in BagToSet(transportCalls)}
    \cup {c.callback : c \in BagToSet(endCalls)}

Deferred == {inputQueue[i].callback : i \in 1..Len(inputQueue)}

Unresolved(S) == {c \in S : invocations[c] = 0}

(* C7, as claimed: at most one callback that the machine holds and has not
   yet called exists at any time. *)
C7_AtMostOnePendingCall ==
  Cardinality(Unresolved(Held \cup Deferred)) <= 1

(* C7, amended: there is one current operation callback, and at most one
   callback not yet called is held for the attempt in flight or carried
   through endingSession; when the current operation callback is set it is
   that callback. The callbacks of the calls deferred in the input queue are
   held besides it. *)
C7_AtMostOneActiveCall ==
  /\ Cardinality(Unresolved(Held)) <= 1
  /\ _currentOperationCallback # 0 => Unresolved(Held) = {_currentOperationCallback}
  /\ Unresolved(Deferred) = Deferred

\* a call is deferred while the callback of another is carried through endingSession
C7_Witness ==
  /\ state = "endingSession"
  /\ Cardinality(Unresolved(Held)) = 1
  /\ Cardinality(Deferred) >= 1
  /\ Deferred \cap Held = {}

(* C8: the callback of a register call is called at most once, whatever
   completes or is called after the attempt has ended. *)
C8_RegisterCallbackAtMostOnce ==
  \A c \in 1..Len(calls) : calls[c] = "register" => invocations[c] <= 1

\* the response to a cancelled attempt arrived after the session was ended
\* and the callback of the attempt was not called again
C8_Witness ==
  /\ Len(trace) = 1
  /\ trace[1].ev = "completion"
  /\ trace[1].op \in {"registrationRequest", "queryOperationStatus"}
  /\ calls[trace[1].cb] = "register"
  /\ invocations[trace[1].cb] = 1
  /\ state = "disconnected"
  /\ endCalls = EmptyBag

\* endSession was called or deferred in the last step in a state other than disconnected
EndSessionRequested ==
  \E k \in 1..Len(trace) :
    /\ trace[k].ev \in {"handle", "defer"}
    /\ trace[k].op = "endSession"
    /\ trace[k].st # "disconnected"

\* the last step completed the endSession of the transport, entered
\* disconnected and called there the callback carried through endingSession
DisconnectedReached ==
  /\ trace # <<>>
  /\ trace[1].ev = "completion"
  /\ trace[1].op = "endSession"
  /\ \E k \in 1..Len(trace) :
       /\ trace[k].ev = "callback"
       /\ trace[k].cb = trace[1].cb
       /\ trace[k].st = "disconnected"

(* C9: once an attempt has ended with an error (the machine is in
   endingSession) or endSession was called in a state other than
   disconnected, and the transport completes its endSession, the machine
   reaches disconnected and the callback carried through endingSession is
   called. *)
C9_EventuallyDisconnected ==
  (EndSessionRequested \/ state = "endingSession") ~> DisconnectedReached

\* the operationStatus events of the step that leads to the next state
Emits == {k \in 1..Len(trace') : trace'[k].ev = "emit"}

(* C10: an operationStatus event is emitted exactly once, with the body of
   the response, for every accepted response whose status is assigning or
   assigned, and in no other step; the attempt whose register callback is
   called with no error has emitted one event more than it accepted assigning
   responses, and the attempt whose callback is called with an error has
   emitted exactly one event for each of them. *)
C10_OneEventPerAcceptedResponse ==
  [][/\ IF RequestCompletes /\ trace'[1].cb = _currentOperationCallback
            /\ trace'[2].err = NoErr /\ trace'[2].body.hasStatus
            /\ toLowerCase(trace'[2].body.status) \in {assigning, assigned}
          THEN /\ Cardinality(Emits) = 1
               /\ \A k \in Emits : trace'[k].cb = trace'[1].cb /\ trace'[k].body = trace'[2].body
          ELSE Emits = {}
     /\ \A c \in 1..Len(emitted) :
          emitted'[c] = emitted[c] + Cardinality({k \in Emits : trace'[k].cb = c})
     /\ \A k \in 1..Len(trace') :
          (trace'[k].ev = "callback" /\ trace'[k].op = "register")
            => emitted'[trace'[k].cb] = polls'[trace'[k].cb]
                 + (IF trace'[k].err = NoErr THEN 1 ELSE 0)]_vars

\* an attempt accepted as many assigning responses as the bound allows, then
\* assigned, and its callback was called
C10_Witness ==
  \E c \in 1..Len(calls) :
    /\ calls[c] = "register"
    /\ polls[c] = MaxPolls
    /\ emitted[c] = MaxPolls + 1
    /\ invocations[c] = 1
    /\ state = "idle"

(* C11: every operationStatus event of an attempt is emitted while the
   register callback of that attempt has not been called, and before any
   call of it in the same step; the event of an assigned body is followed in
   its step by the call of the register callback, which ends the events of
   the attempt, so the assigning bodies are all announced before it; the
   register callback called with no error is given the body and the result
   of the response accepted in that step, after the event of that body. *)
C11_EventsBeforeCallback ==
  [][/\ \A k \in Emits :
          /\ invocations[trace'[k].cb] = 0
          /\ \A j \in 1..k :
               ~(trace'[j].ev = "callback" /\ trace'[j].cb = trace'[k].cb)
          /\ trace'[k].body = trace'[2].body
          /\ toLowerCase(trace'[k].body.status) = assigned
               => \E j \in (k + 1)..Len(trace') :
                    /\ trace'[j].ev = "callback"
                    /\ trace'[j].cb = trace'[k].cb
                    /\ trace'[j].err = NoErr
     /\ \A j \in 1..Len(trace') :
          (trace'[j].ev = "callback" /\ trace'[j].op = "register" /\ trace'[j].err = NoErr)
            => /\ RequestCompletes
               /\ trace'[2].ev = "response"
               /\ trace'[2].err = NoErr
               /\ trace'[j].cb = trace'[1].cb
               /\ trace'[j].body = trace'[2].body
               /\ trace'[j].result = trace'[2].result
               /\ toLowerCase(trace'[j].body.status) = assigned
               /\ \E k \in Emits :
                    /\ k < j
                    /\ trace'[k].cb = trace'[j].cb
                    /\ trace'[k].body = trace'[j].body]_vars

\* an attempt announced one assigning body, then the assigned body, and
\* only then was its register callback called with that body
C11_Witness ==
  \E k, j \in 1..Len(trace) :
    /\ k < j
    /\ trace[k].ev = "emit"
    /\ trace[j].ev = "callback"
    /\ trace[j].cb = trace[k].cb
    /\ trace[j].err = NoErr
    /\ trace[j].body = trace[k].body
    /\ polls[trace[j].cb] = 1
    /\ emitted[trace[j].cb] = 2
    /\ invocations[trace[j].cb] = 1

\* the string s is the word w in some letter case
Spelling(s, w) ==
  /\ Len(s) = Len(w)
  /\ \A i \in 1..Len(w) :
       \/ s[i] = w[i]
       \/ \E j \in 1..26 : LowerChars[j] = w[i] /\ UpperChars[j] = s[i]

\* the step that leads to the next state is a completion that is accepted:
\* its second entry is the response
Accepted == RequestCompletes /\ trace'[1].cb = _currentOperationCallback

\* the calls of the callback cb in the step that leads to the next state
CallbacksOf(cb) == {k \in 1..Len(trace') : trace'[k].ev = "callback" /\ trace'[k].cb = cb}

\* the attempt accepted in the step fails with the error e: nothing is called
\* yet, the error, the body and the result are carried through endingSession
FailsWith(e) ==
  /\ state' = "endingSession"
  /\ _currentOperationCallback' = 0
  /\ timers' = {}
  /\ CallbacksOf(trace'[1].cb) = {}
  /\ invocations'[trace'[1].cb] = 0
  /\ endCalls' = SetToBag({[err |-> e, body |-> trace'[2].body,
                            result |-> trace'[2].result, callback |-> trace'[1].cb]})

\* the listener of the event of the step called endSession
ListenerEndsSession ==
  /\ Len(calls') = Len(calls) + 1
  /\ calls'[Len(calls')] = "endSession"

(* C12: an accepted response that carries a transport error or a status
   string is classified in exactly one of four ways.  A transport error
   fails the register with that error; assigned, in any letter case, calls
   the register callback with (no error, body, result) in idle; assigning,
   in any letter case, arms the poll timer and calls no callback (unless the
   listener ends the session); failed, in any letter case, fails the register
   with a DeviceRegistrationFailedError that carries the body and the result;
   any other string fails it with a SyntaxError that carries them.  The
   error an attempt failed with is the one its register callback is called
   with, together with the body and the result, when the session has ended. *)
C12_ResponseClassification ==
  [][/\ (Accepted /\ (trace'[2].err # NoErr \/ trace'[2].body.hasStatus))
          => LET r  == trace'[2]
                 cb == trace'[1].cb
             IN  CASE r.err # NoErr -> FailsWith(r.err)
                   [] r.err = NoErr /\ Spelling(r.body.status, assigned) ->
                        /\ Cardinality(CallbacksOf(cb)) = 1
                        /\ \A k \in CallbacksOf(cb) :
                             /\ trace'[k].err = NoErr
                             /\ trace'[k].body = r.body
                             /\ trace'[k].result = r.result
                             /\ trace'[k].st = "idle"
                        /\ invocations'[cb] = 1
                        /\ Len(calls') = Len(calls) => state' = "idle" /\ endCalls' = EmptyBag
                   [] r.err = NoErr /\ Spelling(r.body.status, assigning) ->
                        IF ListenerEndsSession
                          THEN \A k \in CallbacksOf(cb) :
                                 trace'[k].err.name = "OperationCancelledError"
                          ELSE /\ CallbacksOf(cb) = {}
                               /\ invocations'[cb] = 0
                               /\ state' = "waitingToPoll"
                               /\ _currentOperationCallback' = cb
                               /\ endCalls' = EmptyBag
                               /\ \E t \in timers' : t.callback = cb
                   [] r.err = NoErr /\ Spelling(r.body.status, failed) ->
                        FailsWith(Err("DeviceRegistrationFailedError", r.body, r.result))
                   [] OTHER -> FailsWith(Err("SyntaxError", r.body, r.result))
     /\ \A c \in BagToSet(endCalls) :
          (/\ trace' # <<>>
           /\ trace'[1].ev = "completion"
           /\ trace'[1].op = "endSession"
           /\ trace'[1].cb = c.callback
           /\ c.err # NoErr)
            => /\ calls[c.callback] = "register"
               /\ c.err.name \in {"TransportError", "DeviceRegistrationFailedError",
                                  "SyntaxError"}
               /\ \E k \in CallbacksOf(c.callback) :
                    /\ trace'[k].err = c.err
                    /\ trace'[k].body = c.body
                    /\ trace'[k].result = c.result
               /\ invocations'[c.callback] = 1]_vars

\* a response with the status Failed was accepted and its attempt fails with
\* a DeviceRegistrationFailedError that carries the body and the result
C12_Witness ==
  /\ Len(trace) >= 2
  /\ trace[2].ev = "response"
  /\ trace[2].body.status = <<"F","a","i","l","e","d">>
  /\ state = "endingSession"
  /\ \E c \in BagToSet(endCalls) :
       /\ c.err = Err("DeviceRegistrationFailedError", trace[2].body, trace[2].result)
       /\ c.callback = trace[1].cb

\* the step that leads to the next state is the completion of the
\* transport's endSession call that carries c
EndSessionCompletesFor(c) ==
  /\ trace' # <<>>
  /\ trace'[1].ev = "completion"
  /\ trace'[1].op = "endSession"
  /\ trace'[1].cb = c.callback

(* C13: when the transport's endSession completes, the callback carried
   through endingSession is called in disconnected with the error that was
   carried, whatever the transport's endSession reports, and with the error
   the transport's endSession reports only when no error was carried; the
   body and the result are the carried ones.  No register callback is ever
   called with the error of the transport's endSession. *)
C13_CarriedErrorWins ==
  [][/\ \A c \in BagToSet(endCalls) :
          EndSessionCompletesFor(c)
            => /\ Cardinality(CallbacksOf(c.callback)) = 1
               /\ \A k \in CallbacksOf(c.callback) :
                    /\ trace'[k].st = "disconnected"
                    /\ trace'[k].err = (IF c.err # NoErr THEN c.err ELSE trace'[1].err)
                    /\ trace'[k].body = c.body
                    /\ trace'[k].result = c.result
     /\ \A k \in 1..Len(trace') :
          (trace'[k].ev = "callback" /\ trace'[k].err = DisconnectError)
            => /\ trace'[k].op = "endSession"
               /\ trace'[k].cb = trace'[1].cb
               /\ trace'[1].err = DisconnectError
               /\ \E c \in BagToSet(endCalls) :
                    EndSessionCompletesFor(c) /\ c.err = NoErr]_vars

\* the transport's endSession failed while a SyntaxError was carried, and the
\* register callback was called with the SyntaxError
C13_Witness ==
  /\ trace # <<>>
  /\ trace[1].ev = "completion"
  /\ trace[1].op = "endSession"
  /\ trace[1].err = DisconnectError
  /\ \E k \in 1..Len(trace) :
       /\ trace[k].ev = "callback"
       /\ trace[k].cb = trace[1].cb
       /\ trace[k].op = "register"
       /\ trace[k].err.name = "SyntaxError"

(* C14: an accepted response with no transport error and no status in its
   body is handled as a response of unknown status: nothing is thrown, the
   attempt fails with a SyntaxError that carries the body and the result,
   and the machine is in endingSession with the session being ended, not in
   responseReceived. *)
C14_NullStatusIsUnknownStatus ==
  (/\ Len(trace) >= 2
   /\ trace[1].ev = "completion"
   /\ trace[2].ev = "response"
   /\ trace[2].err = NoErr
   /\ ~trace[2].body.hasStatus)
    => /\ \A k \in 1..Len(trace) : trace[k].ev # "throw"
       /\ state = "endingSession"
       /\ _currentOperationCallback = 0
       /\ endCalls = SetToBag({[err |-> Err("SyntaxError", trace[2].body, trace[2].result),
                                body |-> trace[2].body, result |-> trace[2].result,
                                callback |-> trace[1].cb]})

\* the polling interval delivered with the response accepted in the step
\* that leads to the next state
AcceptedInterval ==
  LET r == CHOOSE r \in Responses(polls[trace'[1].cb] + 1) :
             r.err = trace'[2].err /\ r.body = trace'[2].body
  IN  r.pollingInterval

\* the step that leads to the next state accepts an assigning response
AcceptsAssigning ==
  /\ Accepted
  /\ trace'[2].err = NoErr
  /\ trace'[2].body.hasStatus
  /\ Spelling(trace'[2].body.status, assigning)

(* C15: queryOperationStatus is called only in the step in which the timer
   armed in waitingToPoll fires, on entry to polling, for the current
   attempt and with the operation id the timer was armed with; the timer is
   armed only in the step that accepts an assigning response, with the
   operation id of that response's body and the polling interval delivered
   with it, so the query carries the operation id of the attempt's latest
   assigning response; the current attempt never has more than one transport
   request outstanding, and none while its timer is pending. *)
C15_QueryWhenDelayElapses ==
  [][/\ \A k \in 1..Len(trace') :
          (trace'[k].ev = "transport" /\ trace'[k].op = "queryOperationStatus")
            => /\ trace'[1].ev = "timeout"
               /\ state = "waitingToPoll"
               /\ k = 2
               /\ trace'[k].st = "polling"
               /\ trace'[k].cb = trace'[1].cb
               /\ trace'[k].cb = _currentOperationCallback
               /\ trace'[k].result = polls[trace'[k].cb]
               /\ \E t \in timers :
                    /\ t.handle = trace'[1].result
                    /\ t.callback = trace'[k].cb
                    /\ t.operationId = trace'[k].result
               /\ \E q \in BagToSet(transportCalls') :
                    /\ q.op = "queryOperationStatus"
                    /\ q.callback = trace'[k].cb
                    /\ q.operationId = trace'[k].result
     /\ \A k \in 1..Len(trace') :
          trace'[k].ev = "setTimeout"
            => /\ AcceptsAssigning
               /\ trace'[k].cb = trace'[1].cb
               /\ trace'[k].result = AcceptedInterval
               /\ \A j \in 1..Len(trace') : trace'[j].ev = "setTimeout" => j = k
     /\ \A t \in timers' \ timers :
          /\ AcceptsAssigning
          /\ t.callback = trace'[1].cb
          /\ t.operationId = trace'[2].body.operationId
          /\ t.pollingInterval = AcceptedInterval
          /\ t.operationId = polls'[t.callback]
     /\ \A q \in BagToSet(transportCalls') :
          q.callback = _currentOperationCallback'
            => /\ CopiesIn(q, transportCalls') = 1
               /\ \A p \in BagToSet(transportCalls') :
                    p.callback = q.callback => p = q
               /\ \A t \in timers' : t.callback # q.callback]_vars

\* the timer armed by the second assigning response fired and the query for
\* the operation id of that response is outstanding
C15_Witness ==
  /\ trace # <<>>
  /\ trace[1].ev = "timeout"
  /\ state = "polling"
  /\ polls[_currentOperationCallback] = 2
  /\ \E q \in BagToSet(transportCalls) :
       /\ q.op = "queryOperationStatus"
       /\ q.callback = _currentOperationCallback
       /\ q.operationId = 2

\* the entries of the step that leads to the next state that are about the
\* callback cb and of the kind ev
EntriesOf(ev, cb) == {k \in 1..Len(trace') : trace'[k].ev = ev /\ trace'[k].cb = cb}

(* C16: a register or endSession call that the listener of an
   operationStatus event makes is deferred in responseReceived or
   responseComplete, where the event is emitted, and is handled exactly once,
   in the same step, in the state the transition in progress reaches:
   waitingToPoll after it armed the timer, or idle after it called the
   register callback; nothing stays queued.  The endSession made from the
   listener of an assigning event clears the timer that was just armed, and
   the register callback is called with an OperationCancelledError before
   the transport's endSession is called; no queryOperationStatus is called
   and no timer is left. *)
C16_ListenerCallDeferred ==
  [][(RequestCompletes /\ Len(calls') = Len(calls) + 1)
       => LET c  == Len(calls')
              cb == trace'[1].cb
              r  == trace'[2]
          IN  /\ Accepted
              /\ Cardinality(EntriesOf("defer", c)) = 1
              /\ Cardinality(EntriesOf("handle", c)) = 1
              /\ inputQueue' = <<>>
              /\ \A d \in EntriesOf("defer", c) : \A h \in EntriesOf("handle", c) :
                   /\ d < h
                   /\ trace'[d].op = calls'[c]
                   /\ trace'[h].op = calls'[c]
                   /\ \E e \in Emits : e = d - 1 /\ trace'[e].st = trace'[d].st
                   /\ IF Spelling(r.body.status, assigning)
                        THEN /\ trace'[d].st = "responseReceived"
                             /\ trace'[h].st = "waitingToPoll"
                             /\ \E s \in EntriesOf("setTimeout", cb) : d < s /\ s < h
                        ELSE /\ trace'[d].st = "responseComplete"
                             /\ trace'[h].st = "idle"
                             /\ \E s \in EntriesOf("callback", cb) :
                                  d < s /\ s < h /\ trace'[s].err = NoErr
              /\ (calls'[c] = "endSession" /\ Spelling(r.body.status, assigning))
                   => /\ timers' = {}
                      /\ _pollingTimer' = 0
                      /\ state' = "endingSession"
                      /\ _currentOperationCallback' = 0
                      /\ invocations'[cb] = 1
                      /\ invocations'[c] = 0
                      /\ \A k \in 1..Len(trace') :
                           ~(trace'[k].ev = "transport" /\ trace'[k].op # "endSession")
                      /\ \E s \in EntriesOf("setTimeout", cb) :
                         \E x \in EntriesOf("clearTimeout", 0) :
                         \E k \in EntriesOf("callback", cb) :
                         \E t \in EntriesOf("transport", c) :
                           /\ s < x /\ x < k /\ k < t
                           /\ trace'[k].err = Err("OperationCancelledError", Undef, 0)
                           /\ trace'[t].op = "endSession"]_vars

\* the listener of an assigning event called endSession: the timer is gone,
\* the register callback was called with an OperationCancelledError and the
\* transport's endSession is outstanding
C16_Witness ==
  /\ Len(trace) >= 2
  /\ trace[1].ev = "completion"
  /\ trace[2].ev = "response"
  /\ toLowerCase(trace[2].body.status) = assigning
  /\ calls[Len(calls)] = "endSession"
  /\ \E d, h \in 1..Len(trace) :
       /\ d < h
       /\ trace[d].ev = "defer"
       /\ trace[d].cb = Len(calls)
       /\ trace[h].ev = "handle"
       /\ trace[h].cb = Len(calls)
  /\ timers = {}
  /\ state = "endingSession"
  /\ invocations[trace[1].cb] = 1

(* C17: in every state the machine rests in, the current operation callback
   is set exactly when the state is sendingRegistrationRequest, waitingToPoll
   or polling, and it is not set in disconnected, idle and endingSession; a
   completion is accepted only in sendingRegistrationRequest or polling. *)
C17_CallbackSetIffInFlight ==
  /\ _currentOperationCallback # 0 <=> state \in InFlight
  /\ state \in {"disconnected", "idle", "endingSession"} => _currentOperationCallback = 0
  /\ \A k \in 1..Len(trace) :
       trace[k].ev = "response" => trace[k].st \in {"sendingRegistrationRequest", "polling"}

(* C18: a timer is pending only while the machine is in waitingToPoll, there
   is never more than one, it belongs to the current attempt, whose register
   callback was not called, and its handle is the one in _pollingTimer; a
   timer fires only in waitingToPoll and takes the machine to polling for
   that same attempt. *)
C18_TimerOnlyWhileWaiting ==
  [][/\ timers' # {}
          => /\ state' = "waitingToPoll"
             /\ Cardinality(timers') = 1
             /\ \A t \in timers' :
                  /\ t.callback = _currentOperationCallback'
                  /\ t.callback # 0
                  /\ t.handle = _pollingTimer'
                  /\ invocations'[t.callback] = 0
     /\ (trace' # <<>> /\ trace'[1].ev = "timeout")
          => /\ state = "waitingToPoll"
             /\ trace'[1].st = "waitingToPoll"
             /\ trace'[1].cb = _currentOperationCallback
             /\ invocations[trace'[1].cb] = 0
             /\ state' = "polling"
             /\ _currentOperationCallback' = trace'[1].cb
             /\ timers' = {}]_vars

\* the attempt waits for its second poll: the first timer fired and is gone,
\* the one pending is the one the second assigning response armed
C18_Witness ==
  /\ state = "waitingToPoll"
  /\ Cardinality(timers) = 1
  /\ \A t \in timers :
       /\ t.callback = _currentOperationCallback
       /\ t.handle = _pollingTimer
       /\ t.operationId = 2
  /\ polls[_currentOperationCallback] = 2
  /\ trace[1].op = "queryOperationStatus"

\* a call made in endingSession is deferred: it is queued behind the inputs
\* deferred before it, its callback is not called and nothing else changes
DeferredInEndingSession ==
  \A op \in {"register", "endSession"} :
    CallIn(op, {"endingSession"})
      => /\ Len(trace') = 2
         /\ trace'[2].ev = "defer"
         /\ trace'[2].op = op
         /\ trace'[2].cb = Len(calls) + 1
         /\ inputQueue' = Append(inputQueue, [type |-> op, callback |-> Len(calls) + 1])
         /\ invocations'[Len(calls) + 1] = 0
         /\ state' = state
         /\ _currentOperationCallback' = _currentOperationCallback
         /\ timers' = timers
         /\ transportCalls' = transportCalls
         /\ endCalls' = endCalls

\* the entry that follows the entry h in the step that leads to the next state
After(h) == trace'[h + 1]

(* C19 as claimed: every register call made in endingSession is deferred,
   is not rejected with an InvalidOperationError and, once the transport's
   endSession has completed and the carried callback was called, has
   registrationRequest called for it; every endSession call made in
   endingSession is deferred and then has its callback called in
   disconnected with no further call of the transport's endSession. *)
C19_DeferredCallStartsOver ==
  [][/\ DeferredInEndingSession
     /\ \A c \in BagToSet(endCalls) : \A i \in 1..Len(inputQueue) :
          EndSessionCompletesFor(c)
            => LET q == inputQueue[i]
               IN  \E k \in EntriesOf("callback", c.callback) :
                   \E h \in EntriesOf("handle", q.callback) :
                     /\ k < h
                     /\ trace'[h].st = "disconnected"
                     /\ IF q.type = "register"
                          THEN /\ After(h).ev = "transport"
                               /\ After(h).op = "registrationRequest"
                               /\ After(h).cb = q.callback
                               /\ \A x \in EntriesOf("callback", q.callback) :
                                    trace'[x].err.name # "InvalidOperationError"
                          ELSE /\ After(h).ev = "callback"
                               /\ After(h).cb = q.callback
                               /\ After(h).err = NoErr
                               /\ EntriesOf("transport", q.callback) = {}]_vars

(* C19: a register or endSession call made in endingSession is deferred.
   When the transport's endSession completes, the carried callback is called
   in disconnected first, then the deferred calls are handled once each, in
   the order they were made, each in the state the ones before it left.  The
   first is handled in disconnected: a register has registrationRequest
   called for it, an endSession has its callback called with no error and no
   call of the transport's endSession.  A call handled after a deferred
   register finds the new attempt in flight: a register is rejected with an
   InvalidOperationError, an endSession cancels the new attempt and calls the
   transport's endSession again; a call that follows that is deferred again. *)
C19_DeferredCallsReplayedInOrder ==
  [][/\ DeferredInEndingSession
     /\ \A c \in BagToSet(endCalls) : \A i \in 1..Len(inputQueue) :
          EndSessionCompletesFor(c)
            => LET q == inputQueue[i]
                   H == EntriesOf("handle", q.callback) \cup EntriesOf("defer", q.callback)
               IN  /\ Cardinality(H) = 1
                   /\ \A h \in H :
                        /\ \E k \in EntriesOf("callback", c.callback) : k < h
                        /\ trace'[h].op = q.type
                        /\ i = 1 => trace'[h].ev = "handle" /\ trace'[h].st = "disconnected"
                        /\ \A j \in 1..(i - 1) :
                             \A g \in EntriesOf("handle", inputQueue[j].callback)
                                        \cup EntriesOf("defer", inputQueue[j].callback) : g < h
                        /\ CASE trace'[h].ev = "defer" ->
                                  /\ trace'[h].st = "endingSession"
                                  /\ \E j \in 1..Len(inputQueue') : inputQueue'[j] = q
                                  /\ invocations'[q.callback] = 0
                             [] trace'[h].ev = "handle" /\ trace'[h].st \in {"disconnected", "idle"} ->
                                  IF q.type = "register"
                                    THEN /\ After(h).ev = "transport"
                                         /\ After(h).op = "registrationRequest"
                                         /\ After(h).cb = q.callback
                                    ELSE /\ trace'[h].st = "disconnected"
                                         /\ After(h).ev = "callback"
                                         /\ After(h).cb = q.callback
                                         /\ After(h).err = NoErr
                                         /\ EntriesOf("transport", q.callback) = {}
                             [] OTHER ->
                                  /\ trace'[h].st = "sendingRegistrationRequest"
                                  /\ After(h).ev = "callback"
                                  /\ IF q.type = "register"
                                       THEN /\ After(h).cb = q.callback
                                            /\ After(h).err.name = "InvalidOperationError"
                                       ELSE /\ After(h).op = "register"
                                            /\ After(h).err.name = "OperationCancelledError"
                                            /\ \E t \in EntriesOf("transport", q.callback) :
                                                 h < t /\ trace'[t].op = "endSession"]_vars

\* a register deferred in endingSession was handled in disconnected after the
\* carried callback was called, and registrationRequest was called for it
C19_Witness ==
  /\ trace # <<>>
  /\ trace[1].ev = "completion"
  /\ trace[1].op = "endSession"
  /\ state = "sendingRegistrationRequest"
  /\ \E k, h \in 1..Len(trace) :
       /\ k < h
       /\ trace[k].ev = "callback"
       /\ trace[k].cb = trace[1].cb
       /\ trace[h].ev = "handle"
       /\ trace[h].op = "register"
       /\ trace[h].st = "disconnected"
       /\ trace[h + 1].ev = "transport"
       /\ trace[h + 1].op = "registrationRequest"
       /\ trace[h + 1].cb = _currentOperationCallback

\* the calls of the transport's endSession in the step that leads to the next state
EndSessionCalls == {k \in 1..Len(trace') : trace'[k].ev = "transport" /\ trace'[k].op = "endSession"}

\* the step that leads to the next state is the completion of the
\* transport's endSession
TransportEndSessionCompletes ==
  /\ trace' # <<>>
  /\ trace'[1].ev = "completion"
  /\ trace'[1].op = "endSession"

(* C20: the transport's endSession is called once every time endingSession
   is entered and at no other time, and one call of it is outstanding exactly
   while the machine is in endingSession; disconnected is entered only from
   endingSession, in the step that completes that call; a step that starts in
   endingSession calls nothing of the transport unless it completes that
   call, and then only after disconnected was entered. *)
C20_OneEndSessionPerEntry ==
  [][/\ BagCardinality(endCalls') <= 1
     /\ state' = "endingSession" <=> endCalls' # EmptyBag
     /\ Cardinality(EndSessionCalls) =
          (IF state' = "endingSession" /\ (state # "endingSession" \/ TransportEndSessionCompletes)
             THEN 1 ELSE 0)
     /\ \A k \in EndSessionCalls :
          /\ trace'[k].st = "endingSession"
          /\ \E c \in BagToSet(endCalls') : c.callback = trace'[k].cb
     /\ \A k \in 1..Len(trace') :
          (trace'[k].st = "disconnected" /\ state # "disconnected")
            => /\ TransportEndSessionCompletes
               /\ state = "endingSession"
               /\ endCalls # EmptyBag
     /\ (state = "endingSession" /\ ~TransportEndSessionCompletes)
          => /\ \A k \in 1..Len(trace') : trace'[k].ev # "transport"
             /\ transportCalls' \sqsubseteq transportCalls
             /\ state' = "endingSession"
     /\ (state = "endingSession" /\ TransportEndSessionCompletes)
          => \A k \in 1..Len(trace') :
               trace'[k].ev = "transport"
                 => \E d \in 1..(k - 1) :
                      trace'[d].ev = "callback" /\ trace'[d].st = "disconnected"]_vars

\* endSession was called in idle: endingSession was entered and one call of
\* the transport's endSession is outstanding
C20_Witness ==
  /\ Len(trace) >= 3
  /\ trace[1].ev = "call"
  /\ trace[1].op = "endSession"
  /\ trace[1].st = "idle"
  /\ trace[3].ev = "transport"
  /\ trace[3].op = "endSession"
  /\ state = "endingSession"
  /\ BagCardinality(endCalls) = 1

====
